---------------------------- MODULE Spec2Model ----------------------------
(***************************************************************************)
(* A model of megatron/data/gpt2_dataset.py: the epoch planner, the three  *)
(* index builders (packed, pack_until_overflow, unpacked), the sample      *)
(* assembler GPT2Dataset.__getitem__, and the build/all_reduce/load        *)
(* protocol of _build_index_mappings over several processes.               *)
(*                                                                         *)
(* Arrays are 1-based sequences; every index that the source uses 0-based  *)
(* is kept 0-based in the state and shifted by one only where a sequence   *)
(* is read (At0).                                                          *)
(***************************************************************************)
EXTENDS Integers, Sequences, FiniteSets, TLC

(***************************************************************************)
(* Bounds of the model.                                                    *)
(***************************************************************************)
\* largest tokens_per_epoch the epoch planner is run on
MaxTokens == 6
\* largest seq_length
MaxSeq == 2
\* largest requested num_samples
MaxSamples == 2
\* number of documents in the document store (ids 0 .. NumDocs-1)
NumDocs == 2
\* largest document size
MaxSize == 3
\* largest number of tokens a store holds over all its documents
MaxCorpus == 5

\* largest number of entries of a packed doc_idx (num_epochs * len(documents))
MaxDocIdx == 4
\* largest number of samples of a packed build whose shuffle is enumerated
MaxBuilt == 3
\* how far past len(shuffle_idx) the requested indices go
ExtraIdx == 1
\* nested __getitem__ calls after which the interpreter raises RecursionError
MaxDepth == 3
\* largest n_batches of a GradientNoiseScale
MaxBatches == 4
\* largest n_updates up to which _update is called
MaxUpdates == 10

\* number of processes calling _build_index_mappings (global ranks 0 .. NumProcs-1)
NumProcs == 3
\* processes per machine: global rank r runs on machine r \div ProcsPerMachine
\* with LOCAL_RANK r % ProcsPerMachine
ProcsPerMachine == 2

VARIABLES
    pc,                 \* position of the sequential program being run
    tokens_per_epoch,   \* _num_tokens(documents, sizes)
    seq_length,
    num_samples,
    num_epochs,
    total_tokens,       \* local of _num_epochs
    sizes,              \* indexed_dataset.sizes, one entry per document of the store
    documents,          \* the ordered list of eligible document ids
    doc_idx,
    sample_idx,         \* sequence of <<doc_idx position, offset>>
    shuffle_idx,
    use_shared_fs,      \* the use_shared_fs argument, the same on every process
    files,              \* per storage domain, the state of each cache file
    ppc,                \* per process, its position in _build_index_mappings
    arrived,            \* the processes whose all_reduce contribution is in
    wrote,              \* the processes that have executed a np.save
    loaded,             \* per process and cache file, what its np.load found
    pack_impl,
    allow_chopped,
    label_dataset,      \* <<>> for None, else one label array per document
    reward_dataset,     \* <<>> for None, else one reward array per document
    ref_dataset,        \* <<>> for None, else one reference array per document
    temp_shuffle_idx,   \* pack_until_overflow: the shuffled document order
    curr_shuffle_idx,   \* pack_until_overflow: the cursor into it
    running_length,     \* pack_until_overflow: tokens in the open sample
    doc_i,              \* unpacked: the document cursor
    shuffle_idx_len,    \* GPT2Dataset.shuffle_idx_len
    sample_idx_len,     \* GPT2Dataset.sample_idx_len
    warned,             \* the constructor printed its length warning
    idx,                \* the index __getitem__ was called with
    out,                \* what that call came to
    n_batches,          \* GradientNoiseScale.n_batches
    buffer,             \* GradientNoiseScale.buffer, one entry per buffered gradient
    n_updates,          \* GradientNoiseScale.n_updates
    averaged            \* gradients in the mean the latest _update took, 0 if none

epochVars == <<tokens_per_epoch, seq_length, num_samples, num_epochs, total_tokens>>
cfgVars == <<sizes, documents>>
gnsVars == <<n_batches, buffer, n_updates, averaged>>
idxVars == <<doc_idx, sample_idx, shuffle_idx>>

coordVars == <<use_shared_fs, files, ppc, arrived, wrote, loaded>>

polVars == <<pack_impl, allow_chopped, label_dataset, reward_dataset, ref_dataset>>
bldVars == <<temp_shuffle_idx, curr_shuffle_idx, running_length, doc_i>>
objVars == <<shuffle_idx_len, sample_idx_len, warned>>
accVars == <<idx, out>>
dataVars == <<polVars, bldVars, objVars, accVars>>

vars == <<pc, epochVars, cfgVars, gnsVars, idxVars, coordVars, dataVars>>

\* no GradientNoiseScale object is in use
GnsIdle == n_batches = 1 /\ buffer = <<>> /\ n_updates = 0 /\ averaged = 0

\* no builder loop is running
BuilderIdle ==
    /\ temp_shuffle_idx = <<>> /\ curr_shuffle_idx = 0
    /\ running_length = 0 /\ doc_i = 0

\* no dataset object has been constructed and no sample requested
ObjectIdle ==
    /\ shuffle_idx_len = 0 /\ sample_idx_len = 0 /\ warned = FALSE
    /\ idx = 0
    /\ out = [kind |-> "none", ret |-> <<>>, samples |-> <<>>, served |-> 0, warnings |-> 0]

\* the dataset is not being built
DataIdle ==
    /\ pack_impl = "packed" /\ allow_chopped = TRUE
    /\ label_dataset = <<>> /\ reward_dataset = <<>> /\ ref_dataset = <<>>
    /\ BuilderIdle /\ ObjectIdle

\* the coordination protocol is not running
CoordIdle ==
    /\ use_shared_fs = TRUE
    /\ files = <<>> /\ ppc = <<>> /\ loaded = <<>>
    /\ arrived = {} /\ wrote = {}

\* a[i] of a 0-based array kept as a sequence
At0(a, i) == a[i + 1]

(***************************************************************************)
(* Epoch planner: _num_epochs.                                             *)
(***************************************************************************)
\* the mutation drops the "- 1" of the one-token overlap
EnoughTokens_NoOverlap(total, seq, n) == (total \div seq) >= n

\* the return condition of the loop: ((total_tokens - 1) // seq_length) >= num_samples
EnoughTokens(total, seq, n) == ((total - 1) \div seq) >= n

\* iterations after which the planner's loop is cut off in the model; with
\* tokens_per_epoch > 0 the loop returns within MaxSamples * MaxSeq + 1 iterations
EpochCap == MaxSamples * MaxSeq + 2

InitEpochs ==
    /\ pc = "num_epochs"
    /\ tokens_per_epoch \in 0..MaxTokens
    /\ seq_length \in 1..MaxSeq
    /\ num_samples \in 0..MaxSamples
    /\ num_epochs = 0
    /\ total_tokens = 0
    /\ sizes = <<>> /\ documents = <<>>
    /\ doc_idx = <<>> /\ sample_idx = <<>> /\ shuffle_idx = <<>>
    /\ CoordIdle
    /\ DataIdle
    /\ GnsIdle

\* one iteration of the while True loop of _num_epochs
NumEpochsStep ==
    /\ pc = "num_epochs"
    /\ num_epochs < EpochCap
    /\ num_epochs' = num_epochs + 1
    /\ total_tokens' = total_tokens + tokens_per_epoch
    /\ pc' = IF EnoughTokens(total_tokens', seq_length, num_samples)
             THEN "num_epochs_returned" ELSE "num_epochs"
    /\ UNCHANGED <<tokens_per_epoch, seq_length, num_samples, cfgVars, gnsVars, idxVars,
                   coordVars, dataVars>>

NextEpochs == NumEpochsStep

SpecEpochs == InitEpochs /\ [][NextEpochs]_vars

\* C2: for tokens_per_epoch > 0, seq_length > 0 and num_samples >= 0 the value
\* _num_epochs returns is the smallest E >= 1 with
\* (E * tokens_per_epoch - 1) // seq_length >= num_samples.
C2_NumEpochsSmallest ==
    (pc = "num_epochs_returned" /\ tokens_per_epoch > 0) =>
        /\ num_epochs >= 1
        /\ (num_epochs * tokens_per_epoch - 1) \div seq_length >= num_samples
        /\ \A e \in 1..(num_epochs - 1) :
               (e * tokens_per_epoch - 1) \div seq_length < num_samples

\* the planner has returned after more than one epoch
C2_Witness ==
    pc = "num_epochs_returned" /\ tokens_per_epoch > 0 /\ num_epochs >= 2

\* C14: with tokens_per_epoch = 0 the planner has failed by the end of the
\* first iteration of its loop: it is neither still looping nor returned.
C14_ZeroTokensRejected ==
    (tokens_per_epoch = 0 /\ num_epochs >= 1) =>
        pc \notin {"num_epochs", "num_epochs_returned"}

\* _num_epochs as a function of its arguments, for tokens_per_epoch > 0
RECURSIVE NumEpochsFrom(_, _, _, _, _)
NumEpochsFrom(epochs, total, tokens, seq, n) ==
    IF EnoughTokens(total + tokens, seq, n)
    THEN epochs + 1
    ELSE NumEpochsFrom(epochs + 1, total + tokens, tokens, seq, n)

NumEpochs(tokens, seq, n) == NumEpochsFrom(0, 0, tokens, seq, n)

(***************************************************************************)
(* The document store and the eligible documents.                          *)
(***************************************************************************)
RECURSIVE SumSizes(_, _)
SumSizes(docs, sz) ==
    IF docs = <<>> THEN 0 ELSE At0(sz, Head(docs)) + SumSizes(Tail(docs), sz)

\* _num_tokens: np.sum(sizes[documents])
NumTokens(docs, sz) == SumSizes(docs, sz)

\* the document lists the builders are run on: the contiguous id ranges
\* [lo, hi) of the store, in order (a split of the corpus)
DocumentLists ==
    { [i \in 1..(hi - lo) |-> lo + i - 1] : lo \in 0..(NumDocs - 1), hi \in 1..NumDocs } \ {<<>>}

(***************************************************************************)
(* Packed policy: _build_doc_idx and _build_sample_idx.                    *)
(***************************************************************************)
\* np.mgrid[0:num_epochs, 0:len(documents)][1] filled with documents and
\* flattened: num_epochs copies of documents, end to end
RECURSIVE Tile(_, _)
Tile(docs, epochs) == IF epochs <= 0 THEN <<>> ELSE docs \o Tile(docs, epochs - 1)

\* every order np_rng.shuffle can leave a sequence in
Shuffles(s) ==
    { [i \in 1..Len(s) |-> s[p[i]]] : p \in Permutations(1..Len(s)) }

\* the mutation forgets the shared token: the next sample starts one past
NextOffset_NoOverlap(doc_offset, remaining, doc_length) ==
    doc_offset + remaining + doc_length

\* doc_offset += remaining_seq_length + doc_length - 1
NextOffset(doc_offset, remaining, doc_length) ==
    doc_offset + remaining + doc_length - 1

\* the boundary that stands for an IndexError raised by doc_idx[doc_idx_index]
NoBoundary == <<-1, -1>>

\* the inner loop "while remaining_seq_length != 0" of _build_sample_idx,
\* from its state to the boundary it records
RECURSIVE FillSample(_, _, _, _, _)
FillSample(sz, didx, doc_idx_index, doc_offset, remaining) ==
    IF remaining = 0 THEN <<doc_idx_index, doc_offset>>
    ELSE IF doc_idx_index >= Len(didx) THEN NoBoundary
    ELSE LET doc_id == At0(didx, doc_idx_index)
             doc_length == At0(sz, doc_id) - doc_offset
             rem == remaining - doc_length
         IN  IF rem <= 0
             THEN FillSample(sz, didx, doc_idx_index,
                             NextOffset(doc_offset, rem, doc_length), 0)
             ELSE FillSample(sz, didx, doc_idx_index + 1, 0, rem)

\* the outer loop "while sample_index <= num_samples" of _build_sample_idx
RECURSIVE SampleLoop(_, _, _, _, _, _)
SampleLoop(sz, didx, seq, built, sample_index, acc) ==
    IF sample_index > built THEN acc
    ELSE LET last == acc[Len(acc)]
             b == FillSample(sz, didx, last[1], last[2], seq + 1)
         IN  IF b = NoBoundary THEN Append(acc, b)
             ELSE SampleLoop(sz, didx, seq, built, sample_index + 1, Append(acc, b))

\* num_samples = (num_epochs * tokens_per_epoch - 1) // seq_length
PackedNumSamples(epochs, tokens, seq) == (epochs * tokens - 1) \div seq

BuildSampleIdx(sz, didx, seq, epochs, tokens) ==
    SampleLoop(sz, didx, seq, PackedNumSamples(epochs, tokens, seq), 1, << <<0, 0>> >>)

\* the configurations of the packed builder: a store with documents of
\* 0..MaxSize tokens and a document list holding at least one token
InitPacked ==
    /\ pc = "build_doc_idx"
    /\ sizes \in [1..NumDocs -> 0..MaxSize]
    /\ documents \in DocumentLists
    /\ seq_length \in 1..MaxSeq
    /\ num_samples \in 0..MaxSamples
    /\ tokens_per_epoch = NumTokens(documents, sizes)
    /\ tokens_per_epoch > 0
    /\ num_epochs = NumEpochs(tokens_per_epoch, seq_length, num_samples)
    /\ num_epochs * Len(documents) <= MaxDocIdx
    /\ total_tokens = 0
    /\ doc_idx = <<>> /\ sample_idx = <<>> /\ shuffle_idx = <<>>
    /\ CoordIdle
    /\ DataIdle
    /\ GnsIdle

\* doc_idx = _build_doc_idx(documents, num_epochs, np_rng)
BuildDocIdx ==
    /\ pc = "build_doc_idx"
    /\ doc_idx' \in Shuffles(Tile(documents, num_epochs))
    /\ pc' = "build_sample_idx"
    /\ UNCHANGED <<epochVars, cfgVars, gnsVars, sample_idx, shuffle_idx, coordVars, dataVars>>

\* sample_idx = _build_sample_idx(sizes, doc_idx, seq_length, num_epochs, tokens_per_epoch)
BuildSampleIdxStep ==
    /\ pc = "build_sample_idx"
    /\ sample_idx' = BuildSampleIdx(sizes, doc_idx, seq_length, num_epochs, tokens_per_epoch)
    /\ pc' = "build_shuffle_idx"
    /\ UNCHANGED <<epochVars, cfgVars, gnsVars, doc_idx, shuffle_idx, coordVars, dataVars>>

NextPacked == BuildDocIdx \/ BuildSampleIdxStep

SpecPacked == InitPacked /\ [][NextPacked]_vars

\* the tokens of the virtual stream, as <<doc_idx position, offset>>
StreamTokens ==
    { t \in (0..(Len(doc_idx) - 1)) \X (0..(MaxSize - 1)) :
        t[2] < At0(sizes, At0(doc_idx, t[1])) }

\* a is at or before b in stream order
AtOrBefore(a, b) == a[1] < b[1] \/ (a[1] = b[1] /\ a[2] <= b[2])

\* the tokens from boundary a to boundary b, both included
TokensBetween(a, b) == { t \in StreamTokens : AtOrBefore(a, t) /\ AtOrBefore(t, b) }

\* C1: every sample of the packed boundary array holds exactly seq_length + 1
\* tokens of the stream counted from its boundary to the next one inclusive, and
\* the closing boundary is a token of the stream: the last token of sample i is
\* the first token of sample i+1, with nothing skipped in between.
C1_PackedSampleLength ==
    pc = "build_shuffle_idx" =>
        /\ Len(sample_idx) = PackedNumSamples(num_epochs, tokens_per_epoch, seq_length) + 1
        /\ \A i \in 1..(Len(sample_idx) - 1) :
              /\ Cardinality(TokensBetween(sample_idx[i], sample_idx[i + 1])) = seq_length + 1
              /\ sample_idx[i + 1] \in StreamTokens

\* a built sample starts inside a document and ends in a later one
C1_Witness ==
    /\ pc = "build_shuffle_idx"
    /\ \E i \in 1..(Len(sample_idx) - 1) :
          /\ sample_idx[i][2] > 0
          /\ sample_idx[i + 1][1] > sample_idx[i][1]

(***************************************************************************)
(* _build_index_mappings over several processes: the elected builder       *)
(* writes the three cache files, every process joins the all_reduce over   *)
(* the I/O group, and then every process loads the three files.            *)
(***************************************************************************)
Procs == 0..(NumProcs - 1)

\* torch.distributed.get_rank()
Rank(p) == p

\* int(os.environ["LOCAL_RANK"])
LocalRank(p) == p % ProcsPerMachine

Machine(p) == p \div ProcsPerMachine

\* the storage a process reads and writes: one for all with shared storage,
\* one per machine otherwise
Domain(p) == IF use_shared_fs THEN 0 ELSE Machine(p)

Domains == { Domain(p) : p \in Procs }

\* mpu.get_io_parallel_group(): the processes that perform dataset I/O; all
\* of them call _build_index_mappings
IoGroup == Procs

\* doc_idx_filename, sample_idx_filename, shuffle_idx_filename, in the order
\* they are saved and loaded
CacheFiles == <<"doc_idx", "sample_idx", "shuffle_idx">>

CacheFileSet == { CacheFiles[k] : k \in 1..Len(CacheFiles) }

\* the mutation elects by LOCAL_RANK whatever use_shared_fs says
ShouldProcess_LocalOnly(p) == LocalRank(p) = 0

\* should_process_dataset
ShouldProcess(p) ==
    IF ~use_shared_fs THEN LocalRank(p) = 0 ELSE Rank(p) = 0

\* the mutation finds no cache file, whatever the directory holds
IsFile_Never(d, f) == FALSE

\* os.path.isfile
IsFile(d, f) == files[d][f] # "absent"

\* what a cache directory may hold when the run starts: nothing, all three
\* files of an earlier run, or only the first of them
StartFiles ==
    { [f \in CacheFileSet |-> "absent"],
      [f \in CacheFileSet |-> "complete"],
      [f \in CacheFileSet |-> IF f = "doc_idx" THEN "complete" ELSE "absent"] }

InitCoord ==
    /\ pc = "coord"
    /\ tokens_per_epoch = 0 /\ seq_length = 1 /\ num_samples = 0
    /\ num_epochs = 0 /\ total_tokens = 0
    /\ sizes = <<>> /\ documents = <<>>
    /\ doc_idx = <<>> /\ sample_idx = <<>> /\ shuffle_idx = <<>>
    /\ DataIdle
    /\ GnsIdle
    /\ use_shared_fs \in BOOLEAN
    /\ files \in [Domains -> StartFiles]
    /\ ppc = [p \in Procs |-> "guard"]
    /\ arrived = {}
    /\ wrote = {}
    /\ loaded = [p \in Procs |-> [f \in CacheFileSet |-> "none"]]

coordFrame == <<pc, epochVars, cfgVars, gnsVars, idxVars, dataVars, use_shared_fs>>

\* "if should_process_dataset: if (not isfile ...) or ...": enter the build
\* branch or go on to the all_reduce
BuildGuard(p) ==
    /\ ppc[p] = "guard"
    /\ ppc' = [ppc EXCEPT ![p] =
                 IF ShouldProcess(p) /\ \E f \in CacheFileSet : ~IsFile(Domain(p), f)
                 THEN "save_1" ELSE "all_reduce"]
    /\ UNCHANGED <<coordFrame, files, arrived, wrote, loaded>>

\* np.save opens (creates or truncates) the k-th cache file
SaveOpen(p, k) ==
    /\ ppc[p] = "save_" \o ToString(k)
    /\ files' = [files EXCEPT ![Domain(p)][CacheFiles[k]] = "partial"]
    /\ wrote' = wrote \cup {p}
    /\ ppc' = [ppc EXCEPT ![p] = "write_" \o ToString(k)]
    /\ UNCHANGED <<coordFrame, arrived, loaded>>

\* np.save has written the whole array and closed the file
SaveClose(p, k) ==
    /\ ppc[p] = "write_" \o ToString(k)
    /\ files' = [files EXCEPT ![Domain(p)][CacheFiles[k]] = "complete"]
    /\ ppc' = [ppc EXCEPT ![p] =
                 IF k < Len(CacheFiles) THEN "save_" \o ToString(k + 1) ELSE "all_reduce"]
    /\ UNCHANGED <<coordFrame, arrived, wrote, loaded>>

\* torch.distributed.all_reduce(counts, group=io group): the process adds its 1
AllReduceEnter(p) ==
    /\ ppc[p] = "all_reduce"
    /\ arrived' = arrived \cup {p}
    /\ ppc' = [ppc EXCEPT ![p] = "in_all_reduce"]
    /\ UNCHANGED <<coordFrame, files, wrote, loaded>>

\* the mutation lets the reduced value be read without waiting for the group
AllReduceComplete_NoWait == TRUE

\* counts[0].item() is available, and equals the group's world size, once
\* every member of the group has contributed
AllReduceComplete == arrived = IoGroup

AllReduceReturn(p) ==
    /\ ppc[p] = "in_all_reduce"
    /\ AllReduceComplete
    /\ ppc' = [ppc EXCEPT ![p] = "load_1"]
    /\ UNCHANGED <<coordFrame, files, arrived, wrote, loaded>>

\* np.load of the k-th cache file; a missing file raises FileNotFoundError
Load(p, k) ==
    /\ ppc[p] = "load_" \o ToString(k)
    /\ loaded' = [loaded EXCEPT ![p][CacheFiles[k]] = files[Domain(p)][CacheFiles[k]]]
    /\ ppc' = [ppc EXCEPT ![p] =
                 IF ~IsFile(Domain(p), CacheFiles[k]) THEN "raised"
                 ELSE IF k < Len(CacheFiles) THEN "load_" \o ToString(k + 1)
                 ELSE "returned"]
    /\ UNCHANGED <<coordFrame, files, arrived, wrote>>

NextCoord ==
    \E p \in Procs :
        \/ BuildGuard(p)
        \/ \E k \in 1..Len(CacheFiles) : SaveOpen(p, k)
        \/ \E k \in 1..Len(CacheFiles) : SaveClose(p, k)
        \/ AllReduceEnter(p)
        \/ AllReduceReturn(p)
        \/ \E k \in 1..Len(CacheFiles) : Load(p, k)

SpecCoord == InitCoord /\ [][NextCoord]_vars

\* the process the design elects for a storage domain: global rank 0 with
\* shared storage, the machine's local rank 0 otherwise
ElectedBuilder(d) ==
    IF use_shared_fs
    THEN CHOOSE p \in Procs : Rank(p) = 0
    ELSE CHOOSE p \in Procs : Machine(p) = d /\ LocalRank(p) = 0

\* the positions inside the build-and-write branch
BuildBranch ==
    { "save_" \o ToString(k) : k \in 1..Len(CacheFiles) } \cup
    { "write_" \o ToString(k) : k \in 1..Len(CacheFiles) }

\* the positions after the all_reduce has returned
PastAllReduce ==
    { "load_" \o ToString(k) : k \in 1..Len(CacheFiles) } \cup {"returned", "raised"}

\* C9: in every storage domain exactly one process is elected; only that process
\* (global rank 0 with shared storage, local rank 0 of the machine otherwise) is
\* ever inside the build-and-write branch or writes a cache file.
C9_OneBuilderPerDomain ==
    pc = "coord" =>
        /\ \A d \in Domains :
              Cardinality({ p \in Procs : Domain(p) = d /\ ShouldProcess(p) }) = 1
        /\ \A p \in Procs :
              (p \in wrote \/ ppc[p] \in BuildBranch) => p = ElectedBuilder(Domain(p))

\* without shared storage, the local rank 0 of each of two machines has written
\* its cache and a process that is not elected has returned
C9_Witness ==
    /\ pc = "coord"
    /\ ~use_shared_fs
    /\ Cardinality(wrote) >= 2
    /\ \E p \in Procs : p # ElectedBuilder(Domain(p)) /\ ppc[p] = "returned"

\* C10: a process that is past the all_reduce finds the elected builder of its
\* storage domain out of the build branch and past its existence check, with
\* all three files written in full; no np.load finds a file missing or partly
\* written.
C10_LoadAfterBuild ==
    pc = "coord" =>
        /\ \A p \in Procs :
              ppc[p] \in PastAllReduce =>
                  /\ ppc[ElectedBuilder(Domain(p))] \notin BuildBranch \cup {"guard"}
                  /\ \A f \in CacheFileSet : files[Domain(p)][f] = "complete"
        /\ \A p \in Procs : \A f \in CacheFileSet : loaded[p][f] \in {"none", "complete"}

\* a process other than the builder has loaded all three files of a cache the
\* builder wrote during this run
C10_Witness ==
    /\ pc = "coord"
    /\ \E p \in Procs :
          /\ p # ElectedBuilder(Domain(p))
          /\ ppc[p] = "returned"
          /\ ElectedBuilder(Domain(p)) \in wrote

\* the directory of a storage domain holds all three cache files
CacheExists(d) == \A f \in CacheFileSet : files[d][f] \in {"partial", "complete"}

\* C11: once all three cache files of a storage domain exist and the build
\* that wrote them is over, no step of an invocation takes a process of the
\* domain into the build branch, no step changes a file of the domain, and
\* what a process loads is what the file holds.
C11_CacheHit ==
    [][ \A p \in Procs :
          LET d == Domain(p)
          IN  (CacheExists(d) /\ ppc[ElectedBuilder(d)] \notin BuildBranch) =>
                  /\ ppc'[p] \notin BuildBranch
                  /\ files'[d] = files[d]
                  /\ \A f \in CacheFileSet :
                        loaded'[p][f] # loaded[p][f] => loaded'[p][f] = files[d][f]
      ]_vars

\* C11 witness: the elected process of a storage domain found the three files,
\* wrote nothing, and every process of the domain has loaded them
C11_Witness ==
    /\ pc = "coord"
    /\ \E d \in Domains :
          /\ ElectedBuilder(d) \notin wrote
          /\ \A p \in Procs :
                Domain(p) = d =>
                    /\ ppc[p] = "returned"
                    /\ \A f \in CacheFileSet : loaded[p][f] = "complete"

\* C12: whenever all three cache files of a storage domain exist, each of them
\* holds its complete array.
C12_AtomicPersist ==
    pc = "coord" =>
        \A d \in Domains :
            CacheExists(d) => \A f \in CacheFileSet : files[d][f] = "complete"

(***************************************************************************)
(* The channel stores.  A store is one array per document; token k of the  *)
(* text of document d is 100 * (d + 1) + k + 1, so that a token names its  *)
(* document and is neither the pad value nor the ignore value.             *)
(***************************************************************************)
\* constant_values=-100 for the label channel, and the masked label
IgnoreIndex == -100
\* constant_values=0 for every other channel
PadValue == 0

TextStore(sz) == [d \in 1..Len(sz) |-> [k \in 1..sz[d] |-> 100 * d + k]]

\* the document a text token comes from
DocOf(token) == (token \div 100) - 1

\* a label array is the text with the masked documents set to -100 all over
LabelStore(sz, masked) ==
    [d \in 1..Len(sz) |->
        [k \in 1..sz[d] |-> IF (d - 1) \in masked THEN IgnoreIndex ELSE 100 * d + k]]

RewardStore(sz) == [d \in 1..Len(sz) |-> [k \in 1..sz[d] |-> 10 * d + k]]

RefStore(sz) == [d \in 1..Len(sz) |-> [k \in 1..sz[d] |-> 1000 * d + k]]

\* dataset.get(doc_id, offset=offset, length=length): the tokens
\* [offset, offset + length) of the document, as far as it has them
GetSpan(store, doc_id, offset, length) ==
    LET tokens == At0(store, doc_id)
        hi == IF offset + length < Len(tokens) THEN offset + length ELSE Len(tokens)
    IN  IF offset < 0 \/ offset + 1 > hi THEN <<>> ELSE SubSeq(tokens, offset + 1, hi)

\* dataset.get(doc_id)
GetAll(store, doc_id) == At0(store, doc_id)

\* dataset.get(doc_id, offset=offset)
GetFrom(store, doc_id, offset) ==
    GetSpan(store, doc_id, offset, Len(At0(store, doc_id)) - offset)

\* dataset.get(doc_id, length=length)
GetPrefix(store, doc_id, length) == GetSpan(store, doc_id, 0, length)

\* np.all(a == -100)
AllIgnored(a) == \A k \in 1..Len(a) : a[k] = IgnoreIndex

\* a[:n]
Prefix(a, n) == IF n >= Len(a) THEN a ELSE SubSeq(a, 1, n)

\* np.arange(n)
Arange(n) == [i \in 1..n |-> i - 1]

(***************************************************************************)
(* GPT2Dataset.__init__ and the single-process build of the three arrays.  *)
(***************************************************************************)
PackImpls == {"packed", "pack_until_overflow", "unpacked"}

\* the document sizes of every store
Stores ==
    { sz \in [1..NumDocs -> 1..MaxSize] : SumSizes(Arange(NumDocs), sz) <= MaxCorpus }

\* the stores whose documents come in order of size
SortedStores == { sz \in Stores : \A i \in 1..(NumDocs - 1) : sz[i] <= sz[i + 1] }

\* the mutation lets a reward channel through under any packing policy
RewardSupported_Always == TRUE

\* assert self.reward_dataset is None or (pack_impl == "unpacked")
RewardSupported == reward_dataset = <<>> \/ pack_impl = "unpacked"

\* assert np.min(documents) >= 0; assert np.max(documents) < sizes.shape[0]
DocumentsInRange(docs, sz) ==
    \A i \in 1..Len(docs) : docs[i] >= 0 /\ docs[i] < Len(sz)

\* document lists that name an id the store does not have: ranges that start
\* at -1 or end past the last document
StrayLists ==
    { [i \in 1..(hi - lo) |-> lo + i - 1] : lo \in (-1)..(NumDocs - 1), hi \in 1..(NumDocs + 1) }
    \ (DocumentLists \cup {<<>>})

\* the configurations a dataset is constructed with, over the given stores,
\* document lists and sets of documents whose label is masked all over;
\* tokens_per_epoch and num_epochs hold what lines 219-220 compute once the
\* checks of __init__ have passed
DatasetConfigs(stores, lists, maskings) ==
    /\ pc = "init"
    /\ sizes \in stores
    /\ documents \in lists
    /\ seq_length \in 1..MaxSeq
    /\ num_samples \in 1..MaxSamples
    /\ pack_impl \in PackImpls
    /\ allow_chopped \in BOOLEAN
    /\ label_dataset \in {<<>>} \cup { LabelStore(sizes, m) : m \in maskings }
    /\ reward_dataset \in {<<>>, RewardStore(sizes)}
    /\ ref_dataset \in {<<>>, RefStore(sizes)}
    /\ tokens_per_epoch = IF DocumentsInRange(documents, sizes)
                          THEN NumTokens(documents, sizes) ELSE 0
    /\ num_epochs = IF DocumentsInRange(documents, sizes)
                    THEN NumEpochs(tokens_per_epoch, seq_length, num_samples) ELSE 0
    /\ pack_impl = "packed" =>
          /\ num_epochs * Len(documents) <= MaxDocIdx
          /\ PackedNumSamples(num_epochs, tokens_per_epoch, seq_length) <= MaxBuilt
    /\ total_tokens = 0
    /\ doc_idx = <<>> /\ sample_idx = <<>> /\ shuffle_idx = <<>>
    /\ BuilderIdle /\ ObjectIdle
    /\ CoordIdle
    /\ GnsIdle

\* every store, every document list and every masking
InitDataset == DatasetConfigs(Stores, DocumentLists, SUBSET (0..(NumDocs - 1)))

\* the whole of a sorted store as the document list (the shuffles reorder the
\* documents), and labels that mask no document
InitAccess == DatasetConfigs(SortedStores, {Arange(NumDocs)}, {{}})

\* a sorted store with any document list, in range or not, and unmasked labels
InitConstruct == DatasetConfigs(SortedStores, DocumentLists \cup StrayLists, {{}})

\* the checks of __init__, then the dispatch on packing_impl
InitChecks ==
    /\ pc = "init"
    /\ pc' = IF ~RewardSupported THEN "assertion_error"
             ELSE IF ~DocumentsInRange(documents, sizes) THEN "assertion_error"
             ELSE IF pack_impl = "packed" THEN "build_doc_idx"
             ELSE IF pack_impl = "pack_until_overflow" THEN "puo_start"
             ELSE "unpacked_start"
    /\ UNCHANGED <<epochVars, cfgVars, gnsVars, idxVars, coordVars, dataVars>>

\* the mutation shuffles one index per boundary
ShuffleSize_PerBoundary(boundaries) == Len(boundaries)

\* sample_idx.shape[0] - 1: sample i is [sample_idx[i], sample_idx[i + 1])
ShuffleSize(boundaries) == Len(boundaries) - 1

\* shuffle_idx = _build_shuffle_idx(sample_idx.shape[0] - 1, np_rng)
BuildShuffleIdx ==
    /\ pc = "build_shuffle_idx"
    /\ pack_impl = "packed"
    /\ shuffle_idx' \in Shuffles(Arange(ShuffleSize(sample_idx)))
    /\ pc' = "built"
    /\ UNCHANGED <<epochVars, cfgVars, gnsVars, doc_idx, sample_idx, coordVars, dataVars>>

\* pack_until_overflow, lines 296-304: the shuffle of the documents and the
\* empty lists (shuffle_idx, shuffled here and read nowhere before it is
\* saved, takes its order in PuoFinish)
PuoStart ==
    /\ pc = "puo_start"
    /\ shuffle_idx' = <<>>
    /\ temp_shuffle_idx' \in Shuffles(Arange(Len(documents)))
    /\ sample_idx' = <<>>
    /\ doc_idx' = <<>>
    /\ running_length' = 0
    /\ curr_shuffle_idx' = 0
    /\ pc' = "puo_loop"
    /\ UNCHANGED <<epochVars, cfgVars, gnsVars, coordVars, polVars, doc_i, objVars, accVars>>

\* the advance at the end of an iteration that accepted a document:
\* curr_shuffle_idx += 1, and at len(documents) wrap to 0 and reshuffle
PuoAdvance ==
    IF curr_shuffle_idx + 1 = Len(documents)
    THEN /\ curr_shuffle_idx' = 0
         /\ temp_shuffle_idx' \in Shuffles(temp_shuffle_idx)
    ELSE /\ curr_shuffle_idx' = curr_shuffle_idx + 1
         /\ UNCHANGED temp_shuffle_idx

\* the mutation closes a sample as soon as it is full
Overflows_WhenFull(running, doc_length) == running + doc_length >= seq_length + 1

\* if running_length + doc_length > (seq_length + 1)
Overflows(running, doc_length) == running + doc_length > seq_length + 1

\* one iteration of "while len(sample_idx) < num_samples"
PuoStep ==
    /\ pc = "puo_loop"
    /\ Len(sample_idx) < num_samples
    /\ IF curr_shuffle_idx >= Len(temp_shuffle_idx)
       THEN \* temp_shuffle_idx[curr_shuffle_idx] raises IndexError
            /\ pc' = "raised"
            /\ UNCHANGED <<idxVars, bldVars>>
       ELSE LET d == At0(temp_shuffle_idx, curr_shuffle_idx)
                doc_length == At0(sizes, d)
            IN  IF \/ ~allow_chopped /\ At0(sizes, d) > seq_length + 1
                   \/ /\ label_dataset # <<>>
                      /\ AllIgnored(Prefix(GetAll(label_dataset, d), seq_length + 1))
                THEN \* curr_shuffle_idx += 1; continue
                     /\ curr_shuffle_idx' = curr_shuffle_idx + 1
                     /\ pc' = pc
                     /\ UNCHANGED <<idxVars, temp_shuffle_idx, running_length, doc_i>>
                ELSE /\ IF running_length = 0
                        THEN /\ sample_idx' = Append(sample_idx, <<Len(doc_idx), 0>>)
                             /\ running_length' = running_length + doc_length
                        ELSE IF Overflows(running_length, doc_length)
                        THEN /\ running_length' = doc_length
                             /\ sample_idx' = Append(sample_idx, <<Len(doc_idx), 0>>)
                        ELSE /\ running_length' = running_length + doc_length
                             /\ UNCHANGED sample_idx
                     /\ doc_idx' = Append(doc_idx, d)
                     /\ PuoAdvance
                     /\ pc' = pc
                     /\ UNCHANGED <<shuffle_idx, doc_i>>
    /\ UNCHANGED <<epochVars, cfgVars, gnsVars, coordVars, polVars, objVars, accVars>>

\* the locals of a builder loop are gone once the three arrays are saved
BuilderReturns ==
    /\ temp_shuffle_idx' = <<>> /\ curr_shuffle_idx' = 0
    /\ running_length' = 0 /\ doc_i' = 0

\* lines 337-340: the closing boundary and the three saves
PuoFinish ==
    /\ pc = "puo_loop"
    /\ Len(sample_idx) >= num_samples
    /\ sample_idx' = Append(sample_idx, <<Len(doc_idx), 0>>)
    /\ shuffle_idx' \in Shuffles(Arange(num_samples))
    /\ BuilderReturns
    /\ pc' = "built"
    /\ UNCHANGED <<epochVars, cfgVars, gnsVars, doc_idx, coordVars, polVars, objVars, accVars>>

\* unpacked, lines 343-349: the boundaries (i, 0) and the empty list
\* (shuffle_idx, shuffled here and read nowhere before it is saved, takes its
\* order in UnpackedFinish)
UnpackedStart ==
    /\ pc = "unpacked_start"
    /\ shuffle_idx' = <<>>
    /\ sample_idx' = [i \in 1..(num_samples + 1) |-> <<i - 1, 0>>]
    /\ doc_idx' = <<>>
    /\ doc_i' = 0
    /\ pc' = "unpacked_loop"
    /\ UNCHANGED <<epochVars, cfgVars, gnsVars, coordVars, polVars,
                   temp_shuffle_idx, curr_shuffle_idx, running_length, objVars, accVars>>

\* one iteration of "while len(doc_idx) <= num_samples"
UnpackedStep ==
    /\ pc = "unpacked_loop"
    /\ Len(doc_idx) <= num_samples
    /\ IF ~allow_chopped /\ At0(sizes, doc_i) > seq_length + 1
       THEN /\ doc_i' = (doc_i + 1) % Len(documents)
            /\ pc' = pc
            /\ UNCHANGED doc_idx
       ELSE IF label_dataset = <<>>
       THEN \* label_dataset.get on None raises AttributeError
            /\ pc' = "raised"
            /\ UNCHANGED <<doc_idx, doc_i>>
       ELSE IF AllIgnored(Prefix(GetAll(label_dataset, doc_i), seq_length))
       THEN /\ doc_i' = (doc_i + 1) % Len(documents)
            /\ pc' = pc
            /\ UNCHANGED doc_idx
       ELSE /\ doc_idx' = Append(doc_idx, doc_i)
            /\ doc_i' = (doc_i + 1) % Len(documents)
            /\ pc' = pc
    /\ UNCHANGED <<epochVars, cfgVars, gnsVars, sample_idx, shuffle_idx, coordVars, polVars,
                   temp_shuffle_idx, curr_shuffle_idx, running_length, objVars, accVars>>

\* lines 362-364: the three saves
UnpackedFinish ==
    /\ pc = "unpacked_loop"
    /\ Len(doc_idx) > num_samples
    /\ shuffle_idx' \in Shuffles(Arange(num_samples))
    /\ BuilderReturns
    /\ pc' = "built"
    /\ UNCHANGED <<epochVars, cfgVars, gnsVars, doc_idx, sample_idx, coordVars, polVars,
                   objVars, accVars>>

\* the arrays are loaded back and __init__ records the two lengths
Construct ==
    /\ pc = "built"
    /\ shuffle_idx_len' = Len(shuffle_idx) - 1
    /\ sample_idx_len' = Len(sample_idx) - 1
    /\ warned' = (shuffle_idx_len' # sample_idx_len' - 1)
    /\ pc' = "ready"
    /\ UNCHANGED <<epochVars, cfgVars, gnsVars, idxVars, coordVars, polVars, bldVars, accVars>>

NextBuild ==
    \/ InitChecks
    \/ BuildDocIdx
    \/ BuildSampleIdxStep
    \/ BuildShuffleIdx
    \/ PuoStart
    \/ PuoStep
    \/ PuoFinish
    \/ UnpackedStart
    \/ UnpackedStep
    \/ UnpackedFinish
    \/ Construct

SpecBuild == InitDataset /\ [][NextBuild]_vars

\* the three arrays are complete
Built == pc \in {"built", "ready", "called"}

SpecConstruct == InitConstruct /\ [][NextBuild]_vars

\* a reward channel under a policy other than unpacked, or a document id
\* outside [0, number of documents of the store)
BadArguments ==
    \/ reward_dataset # <<>> /\ pack_impl \in {"packed", "pack_until_overflow"}
    \/ \E i \in 1..Len(documents) : documents[i] \notin 0..(Len(sizes) - 1)

\* C15: a construction with a reward channel under a policy other than
\* unpacked, or with a document id outside the store, goes from its start to
\* the failed assertion only: no index array is built, no builder loop is
\* entered and no cache file is touched.
C15_FailsBeforeBuild ==
    BadArguments =>
        /\ pc \in {"init", "assertion_error"}
        /\ doc_idx = <<>> /\ sample_idx = <<>> /\ shuffle_idx = <<>>
        /\ BuilderIdle
        /\ files = <<>>

\* C15 witness: the construction has failed on a document id outside the store
C15_Witness ==
    /\ pc = "assertion_error"
    /\ \E i \in 1..Len(documents) : documents[i] \notin 0..(Len(sizes) - 1)

\* the number of samples a finished build has produced: the packed builder
\* as many as the epochs hold, the other two as many as were requested
SamplesProduced ==
    IF pack_impl = "packed"
    THEN PackedNumSamples(num_epochs, tokens_per_epoch, seq_length)
    ELSE num_samples

\* C16: after a build sample_idx has one entry more than there are samples and
\* shuffle_idx has len(sample_idx) - 1 entries; the constructor gets past its
\* length check with the warning printed exactly when the two lengths differ.
C16_ArrayLengths ==
    /\ pc \in {"built", "ready"} =>
          /\ Len(sample_idx) = SamplesProduced + 1
          /\ Len(shuffle_idx) = Len(sample_idx) - 1
    /\ pc = "ready" => (warned <=> Len(shuffle_idx) # Len(sample_idx) - 1)

\* C16 witness: a dataset of several samples has been constructed over arrays
\* of the pack_until_overflow builder
C16_Witness ==
    /\ pc = "ready"
    /\ pack_impl = "pack_until_overflow"
    /\ Len(shuffle_idx) >= 2

\* boundary a is not after boundary b in (doc_idx position, offset) order
NotAfter(a, b) == a[1] < b[1] \/ (a[1] = b[1] /\ a[2] <= b[2])

\* C17: the built boundaries never step back from one entry to the next, and
\* each of them, the closing one included, names a position of doc_idx.
C17_BoundariesInRange ==
    Built =>
        /\ \A k \in 1..(Len(sample_idx) - 1) : NotAfter(sample_idx[k], sample_idx[k + 1])
        /\ \A k \in 1..Len(sample_idx) :
              0 <= sample_idx[k][1] /\ sample_idx[k][1] < Len(doc_idx)

\* how often the id d occurs in a sequence of ids
Occurrences(ids, d) == Cardinality({ k \in 1..Len(ids) : ids[k] = d })

\* C18: every entry of a built doc_idx is an id of `documents`, and the packed
\* doc_idx holds each id num_epochs times as often as `documents` does.
C18_DocIdxFromDocuments ==
    Built =>
        /\ \A k \in 1..Len(doc_idx) : Occurrences(documents, doc_idx[k]) >= 1
        /\ pack_impl = "packed" =>
              \A d \in 0..(NumDocs - 1) :
                  Occurrences(doc_idx, d) = num_epochs * Occurrences(documents, d)

\* C19: without a label channel the unpacked build raises no error.
C19_UnpackedWithoutLabels ==
    (pack_impl = "unpacked" /\ label_dataset = <<>>) => pc # "raised"

\* the doc_idx entries between boundary k and boundary k + 1
SampleDocs(k) ==
    SubSeq(doc_idx, sample_idx[k][1] + 1, sample_idx[k + 1][1])

SpecBuildFair == InitDataset /\ [][NextBuild]_vars /\ WF_vars(NextBuild)

\* the positions inside the loops of the two builders
BuilderLoops == {"puo_loop", "unpacked_loop"}

\* C13: a pack_until_overflow or unpacked build loop that has been entered
\* over a list of several documents is left again, also when no document is
\* eligible.
C13_LoopEnds ==
    (pc \in BuilderLoops /\ Len(documents) > 1) ~> (pc \notin BuilderLoops)

(***************************************************************************)
(* GPT2Dataset.__len__ and GPT2Dataset.__getitem__.                        *)
(***************************************************************************)
\* __len__
Length == IF shuffle_idx_len < sample_idx_len THEN shuffle_idx_len ELSE sample_idx_len

\* Python's a % b for b # 0
PyMod(a, b) == IF b > 0 THEN a % b ELSE 0 - ((0 - a) % (0 - b))

\* the names of the configured channels, in the order of the list `datasets`
ChannelNames ==
    <<"text">>
    \o (IF label_dataset # <<>> THEN <<"label">> ELSE <<>>)
    \o (IF reward_dataset # <<>> THEN <<"reward">> ELSE <<>>)
    \o (IF ref_dataset # <<>> THEN <<"ref">> ELSE <<>>)

\* datasets[n], n counted from 0
ChannelStore(n) ==
    LET c == At0(ChannelNames, n)
    IN  IF c = "text" THEN TextStore(sizes)
        ELSE IF c = "label" THEN label_dataset
        ELSE IF c = "reward" THEN reward_dataset
        ELSE ref_dataset

\* rw_indx
RwIndx ==
    IF reward_dataset = <<>> THEN -1
    ELSE IF label_dataset # <<>> THEN 2 ELSE 1

RECURSIVE Concat(_)
Concat(ss) == IF ss = <<>> THEN <<>> ELSE Head(ss) \o Concat(Tail(ss))

\* np.array([v for _ in range(n)])
Repeat(v, n) == [k \in 1..n |-> v]

\* the doc_idx positions a sample from position f to position l reads
SpanPositions(f, l) ==
    IF f = l THEN <<f>>
    ELSE <<f>> \o [k \in 1..(IF l - f - 1 > 0 THEN l - f - 1 ELSE 0) |-> f + k] \o <<l>>

\* lines 115-129 and 131-166 for a channel that is not the reward channel:
\* the pieces taken from the spanned documents
Pieces(store, first, last) ==
    LET f == first[1]
        l == last[1]
    IN  IF f = l
        THEN << GetSpan(store, At0(doc_idx, f), last[2], last[2] - first[2] + 1) >>
        ELSE << GetFrom(store, At0(doc_idx, f), first[2]) >>
             \o [k \in 1..(IF l - f - 1 > 0 THEN l - f - 1 ELSE 0) |->
                    GetAll(store, At0(doc_idx, f + k))]
             \o << GetPrefix(store, At0(doc_idx, l), last[2] + 1) >>

\* the value the reward channel repeats over a document's piece: rw[0]
RewardValue(rw) == rw[1]

\* the pieces of the reward channel: one value per spanned document, repeated
\* over the length the channel before it took from that document
RewardPieces(store, first, last, lengths) ==
    LET pos == SpanPositions(first[1], last[1])
    IN  [k \in 1..Len(pos) |->
            Repeat(RewardValue(GetAll(store, At0(doc_idx, pos[k]))), lengths[k])]

\* the loop "for n, dataset in enumerate(datasets)": the list `samples`
RECURSIVE Assemble(_, _, _, _)
Assemble(n, first, last, samples) ==
    IF n >= Len(ChannelNames) THEN samples
    ELSE LET store == ChannelStore(n)
             before == Pieces(ChannelStore(n - 1), first, last)
             lengths == IF first[1] = last[1]
                        THEN << Len(samples[Len(samples)]) >>
                        ELSE [k \in 1..Len(before) |-> Len(before[k])]
             pieces == IF n = RwIndx
                       THEN RewardPieces(store, first, last, lengths)
                       ELSE Pieces(store, first, last)
         IN  Assemble(n + 1, first, last, Append(samples, Concat(pieces)))

\* the mutation masks whatever channel comes second
PadMask_SecondChannel(i) == i = 1

\* mask = (self.label_dataset is not None) and (i == 1)
PadMask(i) == label_dataset # <<>> /\ i = 1

\* lines 169-179: pad at the end, or cut, to seq_length + 1
PadOrTruncate(sample, i) ==
    IF Len(sample) < seq_length + 1
    THEN sample \o Repeat(IF PadMask(i) THEN IgnoreIndex ELSE PadValue,
                          (seq_length + 1) - Len(sample))
    ELSE IF Len(sample) > seq_length + 1
    THEN SubSeq(sample, 1, seq_length + 1)
    ELSE sample

\* lines 180-190: the returned dict
Ret(samples) ==
    [c \in { ChannelNames[k] : k \in 1..Len(ChannelNames) } |->
        LET n == CHOOSE k \in 1..Len(ChannelNames) : ChannelNames[k] = c
        IN  PadOrTruncate(samples[n], n - 1)]

\* a[i] raises IndexError
OutOfRange(a, i) == i < 0 \/ i >= Len(a)

\* the try block for the index i: either the samples, or the IndexError with
\* the value idx has when it is raised
TryBlock(i) ==
    IF OutOfRange(shuffle_idx, i) THEN [error |-> TRUE, idx |-> i, samples |-> <<>>]
    ELSE LET j == At0(shuffle_idx, i)
         IN  IF OutOfRange(sample_idx, j) \/ OutOfRange(sample_idx, j + 1)
             THEN [error |-> TRUE, idx |-> j, samples |-> <<>>]
             ELSE LET first == At0(sample_idx, j)
                      last == At0(sample_idx, j + 1)
                      pos == SpanPositions(first[1], last[1])
                  IN  IF \E k \in 1..Len(pos) : OutOfRange(doc_idx, pos[k])
                      THEN [error |-> TRUE, idx |-> j, samples |-> <<>>]
                      ELSE [error |-> FALSE, idx |-> j,
                            samples |-> Assemble(0, first, last, <<>>)]

\* __getitem__(i) with `depth` nested calls left before RecursionError
RECURSIVE GetItemValue(_, _, _)
GetItemValue(i, depth, warnings) ==
    LET t == TryBlock(i)
    IN  IF ~t.error
        THEN [kind |-> "returned", ret |-> Ret(t.samples), samples |-> t.samples,
              served |-> t.idx, warnings |-> warnings]
        ELSE IF Length = 0
        THEN [kind |-> "ZeroDivisionError", ret |-> <<>>, samples |-> <<>>,
              served |-> t.idx, warnings |-> warnings]
        ELSE IF depth = 0
        THEN [kind |-> "RecursionError", ret |-> <<>>, samples |-> <<>>,
              served |-> t.idx, warnings |-> warnings + 1]
        ELSE GetItemValue(PyMod(t.idx, Length), depth - 1, warnings + 1)

\* a call dataset[i]
GetItem ==
    /\ pc = "ready"
    /\ \E i \in 0..(Len(shuffle_idx) + ExtraIdx) :
          /\ idx' = i
          /\ out' = GetItemValue(i, MaxDepth, 0)
    /\ pc' = "called"
    /\ UNCHANGED <<epochVars, cfgVars, gnsVars, idxVars, coordVars, polVars, bldVars, objVars>>

NextDataset == NextBuild \/ GetItem

SpecDataset == InitDataset /\ [][NextDataset]_vars

SpecAccess == InitAccess /\ [][NextDataset]_vars

\* C3: with allow_chopped false, no document longer than seq_length + 1 tokens
\* is an entry of the built doc_idx, under any packing policy.
C3_NoOverlongDocument ==
    (Built /\ ~allow_chopped) =>
        \A k \in 1..Len(doc_idx) : At0(sizes, doc_idx[k]) <= seq_length + 1

\* the non-pad tokens of a text array all come from one document
OneDocument(text) ==
    \E d \in 0..(NumDocs - 1) :
        \A k \in 1..Len(text) : text[k] = PadValue \/ DocOf(text[k]) = d

\* C4: a sample of an unpacked dataset holds tokens of exactly one document,
\* followed only by padding.
C4_UnpackedOneDocument ==
    (pc = "called" /\ pack_impl = "unpacked" /\ out.kind = "returned") =>
        OneDocument(out.ret["text"])

\* the boundary pair of the sample a call served
ServedFirst == At0(sample_idx, out.served)
ServedLast == At0(sample_idx, out.served + 1)

\* the last value of a document's reward array
LastValue(rw) == rw[Len(rw)]

\* C5: every piece of the assembled reward array that stands for one spanned
\* document is filled with the last value of that document's reward array.
C5_RewardLastToken ==
    (pc = "called" /\ out.kind = "returned" /\ reward_dataset # <<>>) =>
        LET pos == SpanPositions(ServedFirst[1], ServedLast[1])
            taken == Pieces(TextStore(sizes), ServedFirst, ServedLast)
        IN  At0(out.samples, RwIndx) =
                Concat([k \in 1..Len(pos) |->
                          Repeat(LastValue(GetAll(reward_dataset, At0(doc_idx, pos[k]))),
                                 Len(taken[k]))])

\* what the design takes from a store for a boundary pair: within one document
\* the tokens from the first offset through the last, else the tail of the first
\* document, the documents in between, and the head of the last
Spanned(store, first, last) ==
    IF first[1] = last[1]
    THEN GetSpan(store, At0(doc_idx, first[1]), first[2], last[2] - first[2] + 1)
    ELSE GetFrom(store, At0(doc_idx, first[1]), first[2])
         \o Concat([k \in 1..(IF last[1] - first[1] - 1 > 0 THEN last[1] - first[1] - 1 ELSE 0) |->
                      GetAll(store, At0(doc_idx, first[1] + k))])
         \o GetPrefix(store, At0(doc_idx, last[1]), last[2] + 1)

\* C6: before padding and truncation, the array of every channel other than
\* the reward channel is the span of its store between the sample's boundaries,
\* starting at the first boundary's offset.
C6_ChannelSpan ==
    (pc = "called" /\ out.kind = "returned") =>
        \A n \in 0..(Len(ChannelNames) - 1) :
            n # RwIndx => At0(out.samples, n) = Spanned(ChannelStore(n), ServedFirst, ServedLast)

\* C7: every configured channel, and no other, is returned with exactly
\* seq_length + 1 elements: the assembled array from its start, cut there if it
\* is longer, and followed by -100 (label channel) or 0 (any other channel) if
\* it is shorter.
C7_PaddedLength ==
    (pc = "called" /\ out.kind = "returned") =>
        /\ DOMAIN out.ret = { ChannelNames[k] : k \in 1..Len(ChannelNames) }
        /\ \A n \in 1..Len(ChannelNames) :
              LET raw == out.samples[n]
                  final == out.ret[ChannelNames[n]]
              IN  /\ Len(final) = seq_length + 1
                  /\ \A k \in 1..(seq_length + 1) :
                        final[k] = IF k <= Len(raw) THEN raw[k]
                                   ELSE IF ChannelNames[n] = "label" THEN IgnoreIndex
                                   ELSE PadValue

\* C7 witness: a sample was returned with a label channel and at least one
\* more channel besides the text, and its assembled arrays were shorter than
\* seq_length + 1, so that both pad values were written.
C7_Witness ==
    /\ pc = "called" /\ out.kind = "returned"
    /\ Len(ChannelNames) >= 3
    /\ label_dataset # <<>>
    /\ \E n \in 1..Len(ChannelNames) : Len(out.samples[n]) < seq_length + 1

\* C8: a call with an index N >= len(dataset) returns what the call with
\* N mod len(dataset) returns, and prints the warning.
C8_ModuloFallback ==
    (pc = "called" /\ Length >= 1 /\ idx >= Length) =>
        /\ out.kind = GetItemValue(idx % Length, MaxDepth, 0).kind
        /\ out.ret = GetItemValue(idx % Length, MaxDepth, 0).ret
        /\ out.warnings >= 1

\* C21: while the pack_until_overflow loop runs, and where it stops, the
\* cursor into the shuffled document order is a position of that order.
C21_CursorInRange ==
    (pack_impl = "pack_until_overflow" /\ pc \in {"puo_loop", "raised"}) =>
        (0 <= curr_shuffle_idx /\ curr_shuffle_idx < Len(documents))

\* C22: on a dataset that reports at least one sample every call returns a
\* sample, after at most one modulo retry.
C22_FallbackEnds ==
    (pc = "called" /\ Length >= 1) =>
        (out.kind = "returned" /\ out.warnings <= 1)

\* C23: the length a constructed dataset reports is the number of samples
\* built, len(shuffle_idx) = len(sample_idx) - 1, and not less than the
\* number of samples requested.
C23_ReportedLength ==
    pc \in {"ready", "called"} =>
        /\ Length = Len(shuffle_idx)
        /\ Length = Len(sample_idx) - 1
        /\ Length >= num_samples

(***************************************************************************)
(* GradientNoiseScale._update.  A gradient is kept as what the estimator   *)
(* reads of it: missing or non-finite ("none"), finite ("finite"), or      *)
(* finite with a squared norm that is not ("huge").                        *)
(***************************************************************************)
Grads == {"none", "finite", "huge"}

InitGns ==
    /\ pc = "gns"
    /\ n_batches \in 2..MaxBatches
    /\ buffer = <<>> /\ n_updates = 0 /\ averaged = 0
    /\ tokens_per_epoch = 0 /\ seq_length = 1 /\ num_samples = 0
    /\ num_epochs = 0 /\ total_tokens = 0
    /\ sizes = <<>> /\ documents = <<>>
    /\ doc_idx = <<>> /\ sample_idx = <<>> /\ shuffle_idx = <<>>
    /\ CoordIdle
    /\ DataIdle

\* flatten_grads returns None
FlattenNone(grad) == grad = "none"

\* g_small.isinf().any() or g_small.isnan().any()
SmallNonFinite(grad) == grad = "huge"

\* whether g_big.isinf().any() or g_big.isnan().any() can hold: the norm of
\* the mean is finite when every averaged gradient has a finite norm
BigNonFinite(batches) ==
    IF \E k \in 1..Len(batches) : batches[k] = "huge" THEN BOOLEAN ELSE {FALSE}

\* one call of _update with the gradient the model holds
Update ==
    /\ pc = "gns"
    /\ n_updates < MaxUpdates
    /\ \E grad \in Grads :
          IF FlattenNone(grad)
          THEN /\ averaged' = 0
               /\ UNCHANGED <<buffer, n_updates>>
          ELSE IF n_updates % n_batches = n_batches - 1
          THEN /\ averaged' = Len(Append(buffer, grad))
               /\ buffer' = <<>>
               /\ \E big \in BigNonFinite(Append(buffer, grad)) :
                     n_updates' = IF SmallNonFinite(grad) \/ big
                                  THEN n_updates ELSE n_updates + 1
          ELSE /\ buffer' = Append(buffer, grad)
               /\ averaged' = 0
               /\ n_updates' = n_updates + 1
    /\ UNCHANGED <<pc, n_batches, epochVars, cfgVars, idxVars, coordVars, dataVars>>

NextGns == Update

SpecGns == InitGns /\ [][NextGns]_vars

\* C24: a large-batch estimate is the mean of exactly n_batches gradients, the
\* buffer holds at most n_batches gradients, and it is empty right after an
\* estimate.
C24_EstimateOverNBatches ==
    pc = "gns" =>
        /\ Len(buffer) <= n_batches
        /\ averaged # 0 => (averaged = n_batches /\ buffer = <<>>)

=============================================================================
